---- MODULE Spec2Model ----
(***************************************************************************)
(* Framing and decoding pipeline of sensorflow-rs: the JeeLink frame       *)
(* grammar (JeeLinkFrame::check / validate / parse) and the buffered frame *)
(* extractor (FramedListener::parse and the two read_frame drivers).       *)
(*                                                                         *)
(* Bytes are modelled by their ASCII codes.  A temperature is modelled by  *)
(* its value in tenths of a degree: the code computes (t as f32 - 1000.)   *)
(* / 10. for a u16 t, the correctly rounded f32 nearest to (t - 1000)/10,  *)
(* and distinct tenths give distinct f32 values.                           *)
(***************************************************************************)
EXTENDS Integers, Sequences, FiniteSets, TLC

VARIABLES
    driver,          \* "async" (SerialStream) or "blocking" (TTYPort): which read_frame impl
    stream,          \* the bytes the byte source will ever hold (environment)
    pos,             \* number of bytes of stream already handed out by reads
    buffer,          \* FramedListener.buffer
    pc,              \* where the caller is: "idle" (outside read_frame), "check" (loop
                     \* head), "read" (at the read), "aborted" (panicked); "buffered" /
                     \* "checked" and "payload" / "decoded" when check or parse runs alone;
                     \* "building", "converted" and "rendered" on the output side;
                     \* "main" (main is about to call read_frame) and "exited"
    result,          \* what the last finished read_frame call returned
    calls,           \* number of read_frame calls started
    lastRead,        \* outcome of the last read on the port
    readInCall,      \* whether the current / last call has read from the port
    timedOutInCall,  \* whether one of its reads has timed out
    frameAtCall,     \* the complete frame the buffer held when the call started, if any
    afterReject,     \* whether the call before this one returned a decode error
    abandoned,       \* for each call that the caller has dropped before it returned,
                     \* the number of bytes that the buffer held then
    lastCheck,       \* input and outcome of JeeLinkFrame::check applied on its own
    payload,         \* input of JeeLinkFrame::parse applied on its own
    input,           \* the numbers the payload was written from
    decoded,         \* outcome of that parse
    point,           \* a LineProtocol value, under construction or built
    line,            \* its rendered text, "" while it has not been rendered; under
                     \* SpecMain what main has written to the standard output
    output,          \* the output format chosen on the command line of sensorflow
    clock,           \* the wall clock, what Utc::now() gives
    added            \* the add_tag and add_value calls made on point, in order

vars == <<driver, stream, pos, buffer, pc, result, calls,
          lastRead, readInCall, timedOutInCall, frameAtCall, afterReject, abandoned,
          lastCheck, payload, input, decoded, point, line, output, clock, added>>

\* the variables of the extractor and those of the output side
inVars == <<driver, stream, pos, buffer, result, calls, lastRead, readInCall,
            timedOutInCall, frameAtCall, afterReject, abandoned, lastCheck>>
outVars == <<point, line, output, clock, added>>

(***************************************************************************)
(* Bounds of the model.                                                    *)
(***************************************************************************)
MaxSegs == 2      \* segments a source stream is made of
MaxCalls == 2     \* read_frame calls in one behaviour
MaxBufSegs == 3   \* segments of a buffer handed to check on its own
MaxFields == 6    \* fields of a payload handed to parse on its own
MaxOdd == 2       \* fields and separators of such a payload that are out of the ordinary
MaxItems == 3     \* add_tag and add_value calls on one LineProtocol value
MaxTicks == 2     \* ticks of the wall clock in one behaviour

(***************************************************************************)
(* Byte helpers.                                                           *)
(***************************************************************************)
Min(S) == CHOOSE x \in S : \A y \in S : x <= y

\* Buf::advance(n): drop the first n bytes
advance(b, n) == SubSeq(b, n + 1, Len(b))

\* slice::starts_with
starts_with(b, p) == Len(b) >= Len(p) /\ SubSeq(b, 1, Len(p)) = p

START_SEQ == <<79, 75, 32, 57, 32>>   \* b"OK 9 "
END_SEQ == <<13, 10>>                 \* b"\r\n"

(***************************************************************************)
(* JeeLinkFrame::check                                                     *)
(***************************************************************************)
\* The start-marker loop: Incomplete as soon as no more than
\* START_SEQ.len() bytes remain, else drop one byte at a time until the
\* buffer starts with START_SEQ.
\* mutant: the scan gives up one byte early
RECURSIVE scan_start_gives_up_early(_)
scan_start_gives_up_early(b) ==
    IF Len(b) <= Len(START_SEQ) + 1 THEN [found |-> FALSE, buf |-> b]
    ELSE IF starts_with(b, START_SEQ) THEN [found |-> TRUE, buf |-> b]
    ELSE scan_start_gives_up_early(advance(b, 1))

\* mutant: the bytes that are left when the scan gives up are discarded
RECURSIVE scan_start_drops_tail(_)
scan_start_drops_tail(b) ==
    IF Len(b) <= Len(START_SEQ) THEN [found |-> FALSE, buf |-> <<>>]
    ELSE IF starts_with(b, START_SEQ) THEN [found |-> TRUE, buf |-> b]
    ELSE scan_start_drops_tail(advance(b, 1))

RECURSIVE scan_start(_)
scan_start(b) ==
    IF Len(b) <= Len(START_SEQ) THEN [found |-> FALSE, buf |-> b]
    ELSE IF starts_with(b, START_SEQ) THEN [found |-> TRUE, buf |-> b]
    ELSE scan_start(advance(b, 1))

\* mutant: the last window of the buffer is not looked at
find_end_misses_last(b) ==
    LET hits == {i \in 0..(Len(b) - Len(END_SEQ) - 1) :
                    SubSeq(b, i + 1, i + Len(END_SEQ)) = END_SEQ}
    IN  IF hits = {} THEN -1 ELSE Min(hits)

\* mutant: the last window equal to END_SEQ is taken
find_end_takes_last(b) ==
    LET hits == {i \in 0..(Len(b) - Len(END_SEQ)) :
                    SubSeq(b, i + 1, i + Len(END_SEQ)) = END_SEQ}
    IN  IF hits = {} THEN -1 ELSE CHOOSE i \in hits : \A j \in hits : j <= i

\* buffer.windows(2).enumerate().find(|(_, win)| win == END_SEQ): the
\* 0-based offset of the first window equal to END_SEQ, -1 for None
find_end(b) ==
    LET hits == {i \in 0..(Len(b) - Len(END_SEQ)) :
                    SubSeq(b, i + 1, i + Len(END_SEQ)) = END_SEQ}
    IN  IF hits = {} THEN -1 ELSE Min(hits)

Incomplete(b) == [res |-> "Incomplete", data |-> <<>>, buf |-> b]

\* mutant: the end marker is left in the buffer
check_keeps_end(b) ==
    LET s == scan_start(b)
        i == find_end(s.buf)
    IN  IF ~s.found \/ i = -1 THEN Incomplete(s.buf)
        ELSE [res  |-> "Ok",
              data |-> advance(SubSeq(s.buf, 1, i), Len(START_SEQ)),
              buf  |-> advance(s.buf, i)]

\* mutant: a frame without end marker is thrown away
check_drops_partial(b) ==
    LET s == scan_start(b)
        i == find_end(s.buf)
    IN  IF ~s.found THEN Incomplete(s.buf)
        ELSE IF i = -1 THEN Incomplete(advance(s.buf, Len(START_SEQ)))
        ELSE [res  |-> "Ok",
              data |-> advance(SubSeq(s.buf, 1, i), Len(START_SEQ)),
              buf  |-> advance(advance(s.buf, i), Len(END_SEQ))]

\* mutant: the payload starts behind the last start marker in front of the
\* end marker
check_resyncs(b) ==
    LET s == scan_start(b)
        i == find_end(s.buf)
        starts == {k \in 0..(i - Len(START_SEQ)) :
                      SubSeq(s.buf, k + 1, k + Len(START_SEQ)) = START_SEQ}
        last == CHOOSE k \in starts : \A j \in starts : j <= k
    IN  IF ~s.found THEN Incomplete(s.buf)
        ELSE IF i = -1 THEN Incomplete(s.buf)
        ELSE [res  |-> "Ok",
              data |-> SubSeq(s.buf, last + Len(START_SEQ) + 1, i),
              buf  |-> advance(advance(s.buf, i), Len(END_SEQ))]

\* res "Ok": data is the frame payload; buf is the buffer afterwards
check(b) ==
    LET s == scan_start(b)
        i == find_end(s.buf)
    IN  IF ~s.found THEN Incomplete(s.buf)
        ELSE IF i = -1 THEN Incomplete(s.buf)
        ELSE [res  |-> "Ok",
              \* split_to(i), then frame_data.advance(START_SEQ.len())
              data |-> advance(SubSeq(s.buf, 1, i), Len(START_SEQ)),
              \* the rest, then buffer.advance(END_SEQ.len())
              buf  |-> advance(advance(s.buf, i), Len(END_SEQ))]

(***************************************************************************)
(* JeeLinkFrame::validate and JeeLinkFrame::parse                          *)
(***************************************************************************)
\* std::str::from_utf8 and str::chars: the code points of the text, with -1
\* in the place where the bytes stop being UTF-8.  Bytes below 0x80 are
\* characters of their own; a lead byte 0xC2..0xDF and a continuation byte
\* 0x80..0xBF are one character.  The alphabet of the model has no lead byte
\* of a longer form (0xE0..0xF4); 0xFF occurs in no UTF-8 text.
RECURSIVE utf8_chars(_)
utf8_chars(b) ==
    IF b = <<>> THEN <<>>
    ELSE IF b[1] < 128 THEN <<b[1]>> \o utf8_chars(advance(b, 1))
    ELSE IF b[1] \in 194..223 /\ Len(b) >= 2 /\ b[2] \in 128..191
    THEN <<(b[1] - 192) * 64 + (b[2] - 128)>> \o utf8_chars(advance(b, 2))
    ELSE <<-1>>

from_utf8_ok(b) == \A i \in 1..Len(utf8_chars(b)) : utf8_chars(b)[i] >= 0

\* char::is_numeric (general categories Nd, Nl, No), char::is_whitespace
\* (White_Space) and char::is_control (Cc, which holds is_ascii_control) on
\* the code points below 0x100
is_numeric(c) == c \in 48..57 \/ c \in {178, 179, 185, 188, 189, 190}
is_whitespace(c) == c \in 9..13 \/ c \in {32, 133, 160}
is_control(c) == c \in 0..31 \/ c \in 127..159

\* mutant: the number of separators is only checked from below
validate_at_least_four(s) ==
    IF ~ \A i \in 1..Len(s) :
            is_numeric(s[i]) \/ is_whitespace(s[i]) \/ is_control(s[i])
    THEN "InvalidChars"
    ELSE IF Cardinality({i \in 1..Len(s) : is_whitespace(s[i])}) < 4
    THEN "WrongNumberOfFields"
    ELSE "Ok"

\* mutant: only the first character is looked at
validate_first_char(s) ==
    IF s # <<>> /\ ~(is_numeric(s[1]) \/ is_whitespace(s[1]) \/ is_control(s[1]))
    THEN "InvalidChars"
    ELSE IF Cardinality({i \in 1..Len(s) : is_whitespace(s[i])}) # 4
    THEN "WrongNumberOfFields"
    ELSE "Ok"

\* s is the text as its code points
validate(s) ==
    IF ~ \A i \in 1..Len(s) :
            is_numeric(s[i]) \/ is_whitespace(s[i]) \/ is_control(s[i])
    THEN "InvalidChars"
    ELSE IF Cardinality({i \in 1..Len(s) : is_whitespace(s[i])}) # 4
    THEN "WrongNumberOfFields"
    ELSE "Ok"

\* s.split(|b| b == ' ').collect(): the fields between the spaces; n spaces
\* give n + 1 fields, some possibly empty
RECURSIVE split(_)
split(s) ==
    LET sp == {i \in 1..Len(s) : s[i] = 32}
    IN  IF sp = {} THEN <<s>>
        ELSE <<SubSeq(s, 1, Min(sp) - 1)>> \o split(advance(s, Min(sp)))

\* value of a string of the digits '0'..'9', -1 if one of its bytes is none
RECURSIVE digits_value(_)
digits_value(d) ==
    IF d = <<>> THEN 0
    ELSE LET c == d[Len(d)]
             r == digits_value(SubSeq(d, 1, Len(d) - 1))
         IN  IF c \notin 48..57 \/ r < 0 THEN -1 ELSE 10 * r + (c - 48)

\* str::parse::<uN>() with N bits: -1 is Err(ParseIntError) (empty, a lone
\* sign, an invalid digit, or a value that does not fit)
parse_uint(s, bits) ==
    LET d == IF s # <<>> /\ s[1] = 43 THEN Tail(s) ELSE s
        v == digits_value(d)
    IN  IF d = <<>> \/ v < 0 \/ v >= 2 ^ bits THEN -1 ELSE v

NoFrame ==
    [id |-> 0, sensor_type |-> 0, new_battery |-> FALSE, weak_battery |-> FALSE,
     temperature |-> 0, humidity |-> 0]

ParseErr(e) == [ok |-> FALSE, err |-> e, frame |-> NoFrame]

\* mutant: the two battery flags are taken from each other's field
parse_swapped_flags(b, checks) ==
    LET fields == split(b)
        f(k) == parse_uint(fields[k + 1], IF k \in {2, 3} THEN 16 ELSE 8)
    IN  IF ~from_utf8_ok(b) \/ validate(utf8_chars(b)) # "Ok" \/ Len(fields) < 5
           \/ \E k \in 0..4 : f(k) < 0
        THEN ParseErr("Rejected")
        ELSE [ok |-> TRUE, err |-> "",
              frame |-> [id |-> f(0), sensor_type |-> f(1) % 128,
                         new_battery |-> (f(4) \div 128) % 2 = 1,
                         weak_battery |-> (f(1) \div 128) # 0,
                         temperature |-> (f(2) * 256 + f(3)) - 1000,
                         humidity |-> f(4) % 128]]

\* The fields are indexed and parsed in the order 0, 1, 2, 3, 4; the first
\* failure ends the call: "Panic" is the abort of an out-of-range index or of
\* an overflowing `+`.  checks is the build profile: with overflow checks
\* (debug) an overflowing `+` panics, without them (release) it wraps.
parse(b, checks) ==
    IF ~from_utf8_ok(b) THEN ParseErr("Utf8Error")
    ELSE IF validate(utf8_chars(b)) # "Ok" THEN ParseErr(validate(utf8_chars(b)))
    ELSE
    LET fields == split(b)
        n == Len(fields)
        f(k) == parse_uint(fields[k + 1], IF k \in {2, 3} THEN 16 ELSE 8)
        shifted == (f(2) * 256) % 65536       \* field1 << 8 on a u16
        temp == shifted + f(3)                \* + field2
    IN  IF f(0) < 0 THEN ParseErr("ParseIntError")
        ELSE IF n < 2 THEN ParseErr("Panic")
        ELSE IF f(1) < 0 THEN ParseErr("ParseIntError")
        ELSE IF n < 3 THEN ParseErr("Panic")
        ELSE IF f(2) < 0 THEN ParseErr("ParseIntError")
        ELSE IF n < 4 THEN ParseErr("Panic")
        ELSE IF f(3) < 0 THEN ParseErr("ParseIntError")
        ELSE IF temp >= 65536 /\ checks THEN ParseErr("Panic")
        ELSE IF n < 5 THEN ParseErr("Panic")
        ELSE IF f(4) < 0 THEN ParseErr("ParseIntError")
        ELSE [ok |-> TRUE, err |-> "",
              frame |-> [id |-> f(0),
                         sensor_type |-> f(1) % 128,
                         new_battery |-> (f(1) \div 128) # 0,
                         weak_battery |-> (f(4) \div 128) % 2 = 1,  \* field & 0x80 != 0
                         temperature |-> (temp % 65536) - 1000,     \* in tenths
                         humidity |-> f(4) % 128]]                  \* field & 0x7F

(***************************************************************************)
(* FramedListener::parse and the two read_frame drivers                    *)
(***************************************************************************)
Ret(k, e, f) == [kind |-> k, err |-> e, frame |-> f]
Pending == Ret("Pending", "", NoFrame)      \* no call has returned yet
Continue == Ret("Continue", "", NoFrame)    \* the loop goes round again

\* mutant: Incomplete is passed on like any other error of check
listener_parse_surfaces_incomplete(b, checks) ==
    LET c == check(b)
        d == parse(c.data, checks)
    IN  IF c.res = "Ok"
        THEN [buf |-> c.buf,
              ret |-> IF d.ok THEN Ret("Some", "", d.frame)
                      ELSE IF d.err = "Panic" THEN Ret("Panic", "", NoFrame)
                      ELSE Ret("Err", d.err, NoFrame)]
        ELSE [buf |-> c.buf, ret |-> Ret("Err", c.res, NoFrame)]

\* the errors of F::parse: of from_utf8, of validate and of str::parse
DecodeErrors == {"Utf8Error", "InvalidChars", "WrongNumberOfFields", "ParseIntError"}

\* mutant: a frame that fails to decode is left in the buffer
listener_parse_keeps_rejected(b, checks) ==
    LET c == check(b)
        d == parse(c.data, checks)
    IN  IF c.res = "Ok"
        THEN [buf |-> IF d.ok THEN c.buf ELSE b,
              ret |-> IF d.ok THEN Ret("Some", "", d.frame)
                      ELSE IF d.err = "Panic" THEN Ret("Panic", "", NoFrame)
                      ELSE Ret("Err", d.err, NoFrame)]
        ELSE [buf |-> c.buf, ret |-> Ret("None", "", NoFrame)]

\* kind "Some": Ok(Some(frame)); "None": Ok(None); "Err": Err(err);
\* "Panic": the call aborts.  buf is self.buffer afterwards.
listener_parse(b, checks) ==
    LET c == check(b)
        d == parse(c.data, checks)
    IN  IF c.res = "Ok"
        THEN [buf |-> c.buf,
              ret |-> IF d.ok THEN Ret("Some", "", d.frame)
                      ELSE IF d.err = "Panic" THEN Ret("Panic", "", NoFrame)
                      ELSE Ret("Err", d.err, NoFrame)]
        ELSE IF c.res = "Incomplete"
        THEN [buf |-> c.buf, ret |-> Ret("None", "", NoFrame)]
        ELSE [buf |-> c.buf, ret |-> Ret("Err", c.res, NoFrame)]

\* A read on the port ends in Ok(n) with n bytes of data (n may be 0) or in
\* Err(e): out = [ok, data, err].
Read(ok, data, err) == [ok |-> ok, data |-> data, err |-> err]

\* mutant: a closed source is always a clean close
async_zero_is_clean_close(out, b) ==
    IF ~out.ok THEN [buf |-> b, ret |-> Ret("Err", out.err, NoFrame)]
    ELSE IF Len(out.data) = 0 THEN [buf |-> b, ret |-> Ret("None", "", NoFrame)]
    ELSE [buf |-> b \o out.data, ret |-> Continue]

\* mutant: the bytes read take the place of the buffer
async_read_overwrites(out, b) ==
    IF ~out.ok THEN [buf |-> b, ret |-> Ret("Err", out.err, NoFrame)]
    ELSE IF Len(out.data) = 0
    THEN [buf |-> b,
          ret |-> IF b = <<>> THEN Ret("None", "", NoFrame)
                  ELSE Ret("Err", "ConnectionLost", NoFrame)]
    ELSE [buf |-> out.data, ret |-> Continue]

\* async read_frame after `read_buf(&mut self.port, &mut self.buffer).await`
async_after_read(out, b) ==
    IF ~out.ok THEN [buf |-> b, ret |-> Ret("Err", out.err, NoFrame)]     \* `?`
    ELSE IF Len(out.data) = 0
    THEN [buf |-> b,
          ret |-> IF b = <<>> THEN Ret("None", "", NoFrame)
                  ELSE Ret("Err", "ConnectionLost", NoFrame)]
    ELSE [buf |-> b \o out.data, ret |-> Continue]

\* mutant: every failed read is retried
blocking_swallows_errors(out, b) ==
    IF out.ok THEN [buf |-> b \o out.data, ret |-> Continue]
    ELSE [buf |-> b, ret |-> Continue]

\* mutant: no arm for the timeout, it is returned like any other error
blocking_timeout_is_error(out, b) ==
    IF out.ok THEN [buf |-> b \o out.data, ret |-> Continue]
    ELSE [buf |-> b, ret |-> Ret("Err", out.err, NoFrame)]

\* mutant: a timeout starts the buffer afresh
blocking_timeout_clears(out, b) ==
    IF out.ok THEN [buf |-> b \o out.data, ret |-> Continue]
    ELSE IF out.err = "TimedOut" THEN [buf |-> <<>>, ret |-> Continue]
    ELSE [buf |-> b, ret |-> Ret("Err", out.err, NoFrame)]

\* blocking read_frame: the match on `self.port.read(&mut stack_buf)`
blocking_after_read(out, b) ==
    IF out.ok /\ Len(out.data) = 0 THEN [buf |-> b, ret |-> Continue]
    ELSE IF out.ok THEN [buf |-> b \o out.data, ret |-> Continue]
    ELSE IF out.err = "TimedOut" THEN [buf |-> b, ret |-> Continue]
    ELSE [buf |-> b, ret |-> Ret("Err", out.err, NoFrame)]

after_read(d, out, b) ==
    IF d = "async" THEN async_after_read(out, b) ELSE blocking_after_read(out, b)

STACK_BUF_LEN == 256     \* let mut stack_buf = [b'0'; 256]

(***************************************************************************)
(* output::influx: LineProtocolValue, Item, LineProtocol and their Display *)
(* Text is a string.  An f64 is held as the decimal that Display prints    *)
(* for it, the shortest one that reads back as the same f64: its sign, its *)
(* integer part and the digits of its fraction ("" for none).  A DateTime  *)
(* is held as the seconds since the epoch and the nanoseconds of the       *)
(* second, from the epoch on.                                              *)
(***************************************************************************)
DIGITS == <<"0", "1", "2", "3", "4", "5", "6", "7", "8", "9">>

\* Display of an unsigned integer
RECURSIVE to_string(_)
to_string(n) ==
    IF n < 10 THEN DIGITS[n + 1] ELSE to_string(n \div 10) \o DIGITS[(n % 10) + 1]

\* Display of a signed integer
int_to_string(n) == IF n < 0 THEN "-" \o to_string(-n) ELSE to_string(n)

\* Display of an f64
float_to_string(x) ==
    (IF x.neg THEN "-" ELSE "") \o to_string(x.int)
        \o (IF x.frac = "" THEN "" ELSE "." \o x.frac)

\* the decimal digits of n in a field of w digits, zeros in front
RECURSIVE zero_padded(_, _)
zero_padded(n, w) ==
    IF w = 0 THEN "" ELSE zero_padded(n \div 10, w - 1) \o DIGITS[(n % 10) + 1]

\* Display of DateTime::timestamp_nanos(), secs * 1_000_000_000 + nanos
timestamp_nanos_text(t) ==
    IF t.secs = 0 THEN to_string(t.nanos)
    ELSE to_string(t.secs) \o zero_padded(t.nanos, 9)

\* LineProtocolTime: None, or Some(t)
NoTime == [set |-> FALSE, secs |-> 0, nanos |-> 0]
SomeTime(t) == [set |-> TRUE, secs |-> t.secs, nanos |-> t.nanos]

\* impl Display for LineProtocolTime
fmt_time(t) == IF t.set THEN " " \o timestamp_nanos_text(t) ELSE ""

\* the variants of LineProtocolValue; the From impls take an i64 to Integer,
\* a u64 to UInteger, an f64 to Float, a &str to String, a bool to Boolean
Float(x) == [type |-> "Float", v |-> x]
Integer(x) == [type |-> "Integer", v |-> x]
UInteger(x) == [type |-> "UInteger", v |-> x]
String(x) == [type |-> "String", v |-> x]
Boolean(x) == [type |-> "Boolean", v |-> x]
Tag(x) == [type |-> "Tag", v |-> x]

bool_to_string(b) == IF b THEN "true" ELSE "false"

\* mutant: an unsigned integer is written like a signed one
fmt_value_unsigned_as_signed(x) ==
    CASE x.type = "Float" -> float_to_string(x.v)
      [] x.type = "Integer" -> int_to_string(x.v) \o "i"
      [] x.type = "UInteger" -> to_string(x.v) \o "i"
      [] x.type = "String" -> "\"" \o x.v \o "\""
      [] x.type = "Boolean" -> bool_to_string(x.v)
      [] x.type = "Tag" -> x.v

\* impl Display for LineProtocolValue
fmt_value(x) ==
    CASE x.type = "Float" -> float_to_string(x.v)
      [] x.type = "Integer" -> int_to_string(x.v) \o "i"
      [] x.type = "UInteger" -> to_string(x.v) \o "u"
      [] x.type = "String" -> "\"" \o x.v \o "\""
      [] x.type = "Boolean" -> bool_to_string(x.v)
      [] x.type = "Tag" -> x.v

\* struct Item(String, LineProtocolValue) and its Display
Item(name, value) == [name |-> name, value |-> value]
fmt_item(item) == item.name \o "=" \o fmt_value(item.value)

\* tag_string.extend(self.tags.iter().map(|item| format!(",{}", item)))
RECURSIVE tag_string(_)
tag_string(tags) ==
    IF tags = <<>> THEN "" ELSE "," \o fmt_item(Head(tags)) \o tag_string(Tail(tags))

\* values.iter().map(|item| format!("{}", item)).collect::<Vec<_>>().join(",")
RECURSIVE value_string(_)
value_string(values) ==
    IF values = <<>> THEN ""
    ELSE IF Len(values) = 1 THEN fmt_item(Head(values))
    ELSE fmt_item(Head(values)) \o "," \o value_string(Tail(values))

\* LineProtocol::new
new(measurement) ==
    [measurement |-> measurement, tags |-> <<>>, values |-> <<>>, time |-> NoTime]

\* mutant: a tag whose key is present takes the place of the earlier one
add_tag_overwrites(p, name, tag) ==
    [p EXCEPT !.tags =
        SelectSeq(p.tags, LAMBDA i : i.name # name) \o <<Item(name, Tag(tag))>>]

\* LineProtocol::add_tag; tag is the text format!("{}", tag) gives
add_tag(p, name, tag) == [p EXCEPT !.tags = Append(p.tags, Item(name, Tag(tag)))]

\* LineProtocol::add_value; value is what value.into() gives
add_value(p, name, value) == [p EXCEPT !.values = Append(p.values, Item(name, value))]

\* LineProtocol::add_time
add_time(p, time) == [p EXCEPT !.time = time]

\* mutant: the space is written only in front of a field
fmt_space_with_fields(p) ==
    p.measurement \o tag_string(p.tags)
        \o (IF p.values = <<>> THEN "" ELSE " " \o value_string(p.values))
        \o fmt_time(p.time)

\* impl Display for LineProtocol: write!(f, "{}{} {}{}", ...)
fmt(p) ==
    p.measurement \o tag_string(p.tags) \o " " \o value_string(p.values)
        \o fmt_time(p.time)

(***************************************************************************)
(* impl ToLineProtocol for JeeLinkFrame                                    *)
(***************************************************************************)
\* `self.temperature as f64` for a temperature of t tenths: the f64 equal to
\* the f32 that is nearest to t / 10.  A multiple of one half is an f32 and
\* prints with its one digit.  The one other temperature of the model's
\* records is 21.7, and the f32 nearest to it prints as 21.700000762939453.
f32_as_f64(t) ==
    LET a == IF t < 0 THEN -t ELSE t
    IN  IF a % 5 = 0
        THEN [neg |-> t < 0, int |-> a \div 10,
              frac |-> IF a % 10 = 0 THEN "" ELSE "5"]
        ELSE [neg |-> FALSE, int |-> 21, frac |-> "700000762939453"]

\* mutant: the point is left without a timestamp
to_lineprotocol_without_time(r, now) ==
    add_value(add_value(add_value(add_value(add_tag(add_tag(new("tempHum"),
        "sensorId", to_string(r.id)),
        "sensorType", to_string(r.sensor_type)),
        "temperature", Float(f32_as_f64(r.temperature))),
        "humidity", UInteger(r.humidity)),
        "weak_battery", Boolean(r.weak_battery)),
        "new_battery", Boolean(r.new_battery))

\* mutant: the two battery fields are written in the other order
to_lineprotocol_new_battery_first(r, now) ==
    add_time(add_value(add_value(add_value(add_value(add_tag(add_tag(new("tempHum"),
        "sensorId", to_string(r.id)),
        "sensorType", to_string(r.sensor_type)),
        "temperature", Float(f32_as_f64(r.temperature))),
        "humidity", UInteger(r.humidity)),
        "new_battery", Boolean(r.new_battery)),
        "weak_battery", Boolean(r.weak_battery)),
        SomeTime(now))

\* now is what Utc::now() gives when the conversion runs
to_lineprotocol(r, now) ==
    add_time(add_value(add_value(add_value(add_value(add_tag(add_tag(new("tempHum"),
        "sensorId", to_string(r.id)),
        "sensorType", to_string(r.sensor_type)),
        "temperature", Float(f32_as_f64(r.temperature))),
        "humidity", UInteger(r.humidity)),
        "weak_battery", Boolean(r.weak_battery)),
        "new_battery", Boolean(r.new_battery)),
        SomeTime(now))

(***************************************************************************)
(* impl Display for JeeLinkFrame, and to_output and the loop of main in    *)
(* bin/sensorflow.rs                                                       *)
(***************************************************************************)
\* `{:w}` of a number: its text, spaces in front up to the width w
RECURSIVE pad_left(_, _)
pad_left(text, w) == IF Len(text) >= w THEN text ELSE pad_left(" " \o text, w)

\* Display of the f32 temperature of t tenths, the shortest decimal that
\* reads back as the same f32: the tenths, or the integer if there are none
f32_to_string(t) ==
    LET a == IF t < 0 THEN -t ELSE t
    IN  (IF t < 0 THEN "-" ELSE "") \o to_string(a \div 10)
            \o (IF a % 10 = 0 THEN "" ELSE "." \o DIGITS[(a % 10) + 1])

\* impl Display for JeeLinkFrame
fmt_frame(r) ==
    "Sensor " \o pad_left(to_string(r.id), 2)
        \o ": Type " \o pad_left(to_string(r.sensor_type), 2)
        \o ", Temperatur " \o pad_left(f32_to_string(r.temperature), 4)
        \o ", Humidity " \o pad_left(to_string(r.humidity), 2)
        \o ", weak battery: " \o bool_to_string(r.weak_battery)
        \o ", new battery: " \o bool_to_string(r.new_battery)

\* to_output; LineProtocol::from(frame) is frame.to_lineprotocol()
to_output(out, frame, now) ==
    IF out = "Stringify" THEN fmt_frame(frame) ELSE fmt(to_lineprotocol(frame, now))

\* mutant: main goes on after the error of a malformed frame
main_match_logs_and_continues(res) ==
    CASE res.kind = "Some" -> [pc |-> "main", print |-> TRUE]
      [] res.kind = "Err" /\ res.err \notin DecodeErrors -> [pc |-> "exited", print |-> FALSE]
      [] OTHER -> [pc |-> "main", print |-> FALSE]

\* `match res` in the loop of main: where main goes on and whether it prints
main_match(res) ==
    CASE res.kind = "Some" -> [pc |-> "main", print |-> TRUE]      \* println!
      [] res.kind = "Err" -> [pc |-> "exited", print |-> FALSE]    \* Err(e)?
      [] OTHER -> [pc |-> "main", print |-> FALSE]                 \* Ok(_) => ()

(***************************************************************************)
(* What a buffer holds, stated on the bytes alone: the offsets of the      *)
(* start markers, of the end markers from an offset on, and the first      *)
(* complete frame (the first start marker and the first end marker after   *)
(* it).                                                                    *)
(***************************************************************************)
StartOffsets(b) ==
    {k \in 0..(Len(b) - Len(START_SEQ)) : SubSeq(b, k + 1, k + Len(START_SEQ)) = START_SEQ}

EndOffsetsFrom(b, k) ==
    {j \in k..(Len(b) - Len(END_SEQ)) : SubSeq(b, j + 1, j + Len(END_SEQ)) = END_SEQ}

HasFrame(b) ==
    /\ StartOffsets(b) # {}
    /\ EndOffsetsFrom(b, Min(StartOffsets(b)) + Len(START_SEQ)) # {}

FirstFrame(b) ==
    IF ~HasFrame(b) THEN [has |-> FALSE, data |-> <<>>, rest |-> b]
    ELSE LET k == Min(StartOffsets(b))
             j == Min(EndOffsetsFrom(b, k + Len(START_SEQ)))
         IN  [has |-> TRUE,
              data |-> SubSeq(b, k + Len(START_SEQ) + 1, j),
              rest |-> SubSeq(b, j + Len(END_SEQ) + 1, Len(b))]

(***************************************************************************)
(* The environment: byte streams a source may hold.                        *)
(***************************************************************************)
Noise == <<120>>                                             \* "x"
FrameA == START_SEQ \o <<49, 32, 50, 32, 51, 32, 52, 32, 53>> \o END_SEQ
                                                             \* "OK 9 1 2 3 4 5\r\n"
FrameB == START_SEQ \o <<57, 32, 56, 32, 55, 32, 54, 32, 53>> \o END_SEQ
                                                             \* "OK 9 9 8 7 6 5\r\n"
FrameBad == START_SEQ \o <<55, 97>> \o END_SEQ               \* "OK 9 7a\r\n"

Segs == {Noise, FrameA, FrameB, FrameBad}

RECURSIVE Concats(_, _)
Concats(S, n) ==
    IF n = 0 THEN {<<>>}
    ELSE LET prev == Concats(S, n - 1)
         IN  prev \cup {p \o x : p \in prev, x \in S}

Streams == Concats(Segs, MaxSegs)

IoErrors == {"BrokenPipe", "Interrupted"}  \* std::io::ErrorKind of a failed read, TimedOut apart

NoCheck == [done |-> FALSE, in |-> <<>>, res |-> "", data |-> <<>>, out |-> <<>>]
CheckRecord(b) ==
    [done |-> TRUE, in |-> b, res |-> check(b).res, data |-> check(b).data,
     out |-> check(b).buf]

\* the wall clock when a behaviour starts: 2016-07-08 09:10:11.000000001 UTC
ClockStart == [secs |-> 1467969011, nanos |-> 1]

\* the output side before anything is built
InitOut ==
    /\ point = new("")
    /\ line = ""
    /\ output = "Stringify"          \* default_value_t = OutEnum::Stringify
    /\ clock = ClockStart
    /\ added = <<>>

(***************************************************************************)
(* Spec: one FramedListener driven by a caller that calls read_frame       *)
(* again and again.                                                        *)
(***************************************************************************)
Init ==
    /\ driver \in {"async", "blocking"}
    /\ stream \in Streams
    /\ pos = 0
    /\ buffer = <<>>                 \* FramedListener::new
    /\ pc = "idle"
    /\ result = Pending
    /\ calls = 0
    /\ lastRead = "none"
    /\ readInCall = FALSE
    /\ timedOutInCall = FALSE
    /\ frameAtCall = [has |-> FALSE, data |-> <<>>]
    /\ afterReject = FALSE
    /\ abandoned = <<>>
    /\ lastCheck = NoCheck
    /\ payload = <<>>
    /\ input = <<>>
    /\ decoded = ParseErr("")
    /\ InitOut

\* the caller enters read_frame
Call ==
    /\ pc = "idle"
    /\ calls < MaxCalls
    /\ pc' = "check"
    /\ calls' = calls + 1
    /\ result' = Pending
    /\ lastRead' = "none"
    /\ readInCall' = FALSE
    /\ timedOutInCall' = FALSE
    /\ frameAtCall' = [has |-> FirstFrame(buffer).has, data |-> FirstFrame(buffer).data]
    /\ afterReject' = (result.kind = "Err" /\ result.err \in DecodeErrors)
    /\ UNCHANGED <<driver, stream, pos, buffer, abandoned, lastCheck, payload, input,
                   decoded>>
    /\ UNCHANGED outVars

\* loop head of read_frame: `if let Some(frame) = self.parse()? { return .. }`
ParseStep ==
    /\ pc = "check"
    /\ \E checks \in BOOLEAN : \E r \in {listener_parse(buffer, checks)} :
           /\ buffer' = r.buf
           /\ pc' = CASE r.ret.kind = "None" -> "read"
                      [] r.ret.kind = "Panic" -> "aborted"
                      [] OTHER -> "idle"
           /\ result' = IF r.ret.kind = "None" THEN result ELSE r.ret
    /\ UNCHANGED <<driver, stream, pos, calls, lastRead, readInCall, timedOutInCall,
                   frameAtCall, afterReject, abandoned, lastCheck, payload, input,
                   decoded>>
    /\ UNCHANGED outVars

\* what every read does once the port has answered with `out`
ReadStep(out, kind) ==
    /\ pc = "read"
    /\ \E r \in {after_read(driver, out, buffer)} :
           /\ buffer' = r.buf
           /\ pc' = IF r.ret = Continue THEN "check" ELSE "idle"
           /\ result' = IF r.ret = Continue THEN result ELSE r.ret
    /\ lastRead' = kind
    /\ readInCall' = TRUE
    /\ timedOutInCall' = (timedOutInCall \/ kind = "TimedOut")
    /\ pos' = pos + Len(out.data)
    /\ UNCHANGED <<driver, stream, calls, frameAtCall, afterReject, abandoned,
                   lastCheck, payload, input, decoded>>
    /\ UNCHANGED outVars

\* the port hands out the next n bytes of the stream
ReadData ==
    \E n \in 1..(Len(stream) - pos) :
        /\ driver = "blocking" => n <= STACK_BUF_LEN
        /\ ReadStep(Read(TRUE, SubSeq(stream, pos + 1, pos + n), ""), "data")

\* the port answers Ok(0): the source is closed
ReadZero == ReadStep(Read(TRUE, <<>>, ""), "zero")

\* the port answers Err(e) with e.kind() == ErrorKind::TimedOut
ReadTimeout == ReadStep(Read(FALSE, <<>>, "TimedOut"), "TimedOut")

\* the port answers Err(e) of another kind
ReadFail == \E e \in IoErrors : ReadStep(Read(FALSE, <<>>, e), e)

Next == Call \/ ParseStep \/ ReadData \/ ReadZero \/ ReadTimeout \/ ReadFail

Spec == Init /\ [][Next]_vars

(***************************************************************************)
(* SpecBlocking: the blocking driver on a source that is idle for a while  *)
(* (its reads time out) and delivers, after some noise, the frame FrameA;  *)
(* the source neither closes nor fails.  The caller keeps calling, the     *)
(* loop of read_frame keeps running, and a source with bytes left times    *)
(* out only finitely often before a read hands out bytes (the loop is at   *)
(* the read again and again, hence strong fairness of ReadData).           *)
(***************************************************************************)
LiveStreams == {g \o FrameA \o t : g \in Concats({Noise}, MaxSegs), t \in {<<>>, FrameB}}

InitBlocking ==
    /\ driver = "blocking"
    /\ stream \in LiveStreams
    /\ pos = 0
    /\ buffer = <<>>
    /\ pc = "idle"
    /\ result = Pending
    /\ calls = 0
    /\ lastRead = "none"
    /\ readInCall = FALSE
    /\ timedOutInCall = FALSE
    /\ frameAtCall = [has |-> FALSE, data |-> <<>>]
    /\ afterReject = FALSE
    /\ abandoned = <<>>
    /\ lastCheck = NoCheck
    /\ payload = <<>>
    /\ input = <<>>
    /\ decoded = ParseErr("")
    /\ InitOut

NextBlocking == Call \/ ParseStep \/ ReadData \/ ReadTimeout

\* ParseStep is possible whenever pc = "check" and always leaves the loop
\* head, so that weak fairness of ParseStep is []<>(pc # "check").
SpecBlocking ==
    /\ InitBlocking
    /\ [][NextBlocking]_vars
    /\ WF_vars(Call) /\ SF_vars(ReadData)
    /\ []<>(pc # "check")

(***************************************************************************)
(* SpecReject: the listener on a source that delivers a frame that fails   *)
(* to decode (in validation, or in the parsing of an integer) and another  *)
(* frame behind it, with or without noise in front of each.                *)
(***************************************************************************)
FrameOdd == START_SEQ \o <<49, 32, 50, 32, 51, 32, 52, 32>> \o END_SEQ
                                                             \* "OK 9 1 2 3 4 \r\n"

RejectStreams ==
    {g \o bad \o h \o next : g \in {<<>>, Noise}, bad \in {FrameBad, FrameOdd},
                             h \in {<<>>, Noise}, next \in {FrameA, FrameBad, FrameOdd}}

InitReject ==
    /\ driver \in {"async", "blocking"}
    /\ stream \in RejectStreams
    /\ pos = 0
    /\ buffer = <<>>
    /\ pc = "idle"
    /\ result = Pending
    /\ calls = 0
    /\ lastRead = "none"
    /\ readInCall = FALSE
    /\ timedOutInCall = FALSE
    /\ frameAtCall = [has |-> FALSE, data |-> <<>>]
    /\ afterReject = FALSE
    /\ abandoned = <<>>
    /\ lastCheck = NoCheck
    /\ payload = <<>>
    /\ input = <<>>
    /\ decoded = ParseErr("")
    /\ InitOut

SpecReject == InitReject /\ [][Next]_vars

(***************************************************************************)
(* SpecOrder: the listener on a source that delivers one or two            *)
(* well-formed frames, each with or without noise in front of it (the      *)
(* noise holds no start marker, but may end like the beginning of one),    *)
(* in reads of any size, and is closed once it has delivered them.         *)
(***************************************************************************)
NoiseKinds == {<<>>, Noise, <<120, 79, 75, 32, 57>>}        \* "", "x", "xOK 9"

NoisyFrames == {g \o f : g \in NoiseKinds, f \in {FrameA, FrameB}}

OrderStreams == NoisyFrames \cup {f \o g : f \in NoisyFrames, g \in NoisyFrames}

InitOrder ==
    /\ driver \in {"async", "blocking"}
    /\ stream \in OrderStreams
    /\ pos = 0
    /\ buffer = <<>>
    /\ pc = "idle"
    /\ result = Pending
    /\ calls = 0
    /\ lastRead = "none"
    /\ readInCall = FALSE
    /\ timedOutInCall = FALSE
    /\ frameAtCall = [has |-> FALSE, data |-> <<>>]
    /\ afterReject = FALSE
    /\ abandoned = <<>>
    /\ lastCheck = NoCheck
    /\ payload = <<>>
    /\ input = <<>>
    /\ decoded = ParseErr("")
    /\ InitOut

\* the port answers Ok(0) once the source has handed out all it holds
ReadClosed == pos = Len(stream) /\ ReadZero

NextOrder == Call \/ ParseStep \/ ReadData \/ ReadClosed

SpecOrder == InitOrder /\ [][NextOrder]_vars

(***************************************************************************)
(* SpecChunks: the listener on a source that delivers a stream of noise,   *)
(* well-formed, malformed and cut-off frames in reads of any size and is   *)
(* closed once it has delivered it, with a caller that may drop a pending  *)
(* call of the async driver while it waits for a read.                     *)
(***************************************************************************)
ChunkSegs ==
    {Noise, <<79, 75, 32, 57>>, FrameA, FrameBad, START_SEQ \o <<49>>}
                                       \* "x", "OK 9", two frames, "OK 9 1"

\* no segment, one, or two
ChunkStreams == {<<>>} \cup ChunkSegs \cup {a \o b : a \in ChunkSegs, b \in ChunkSegs}

InitChunks ==
    /\ driver \in {"async", "blocking"}
    /\ stream \in ChunkStreams
    /\ pos = 0
    /\ buffer = <<>>
    /\ pc = "idle"
    /\ result = Pending
    /\ calls = 0
    /\ lastRead = "none"
    /\ readInCall = FALSE
    /\ timedOutInCall = FALSE
    /\ frameAtCall = [has |-> FALSE, data |-> <<>>]
    /\ afterReject = FALSE
    /\ abandoned = <<>>
    /\ lastCheck = NoCheck
    /\ payload = <<>>
    /\ input = <<>>
    /\ decoded = ParseErr("")
    /\ InitOut

\* mutant: the bytes that the dropped call has buffered go with it
AbandonLosesBuffer ==
    /\ driver = "async"
    /\ pc = "read"
    /\ pc' = "idle"
    /\ buffer' = <<>>
    /\ abandoned' = Append(abandoned, Len(buffer))
    /\ UNCHANGED <<driver, stream, pos, result, calls, lastRead, readInCall,
                   timedOutInCall, frameAtCall, afterReject, lastCheck, payload, input,
                   decoded>>
    /\ UNCHANGED outVars

\* The caller drops the future of read_frame while it is pending, which it
\* is only at `.await` of the read.  The future holds `&mut self` and no
\* bytes of its own: self.buffer and the port are as the last poll left them.
Abandon ==
    /\ driver = "async"
    /\ pc = "read"
    /\ pc' = "idle"
    /\ abandoned' = Append(abandoned, Len(buffer))
    /\ UNCHANGED <<driver, stream, pos, buffer, result, calls, lastRead, readInCall,
                   timedOutInCall, frameAtCall, afterReject, lastCheck, payload, input,
                   decoded>>
    /\ UNCHANGED outVars

NextChunks == Call \/ ParseStep \/ ReadData \/ ReadClosed \/ Abandon

SpecChunks == InitChunks /\ [][NextChunks]_vars

(***************************************************************************)
(* SpecCheck: JeeLinkFrame::check applied to a buffer on its own.          *)
(***************************************************************************)
BufSegs ==
    {Noise, START_SEQ, END_SEQ, <<13>>, <<79, 75, 32, 57>>, <<49, 32, 50>>,
     START_SEQ \o <<49, 32, 50>> \o END_SEQ, FrameA}

Buffers == Concats(BufSegs, MaxBufSegs)

InitCheck ==
    /\ driver = "async"
    /\ stream = <<>>
    /\ pos = 0
    /\ buffer \in Buffers
    /\ pc = "buffered"
    /\ result = Pending
    /\ calls = 0
    /\ lastRead = "none"
    /\ readInCall = FALSE
    /\ timedOutInCall = FALSE
    /\ frameAtCall = [has |-> FALSE, data |-> <<>>]
    /\ afterReject = FALSE
    /\ abandoned = <<>>
    /\ lastCheck = NoCheck
    /\ payload = <<>>
    /\ input = <<>>
    /\ decoded = ParseErr("")
    /\ InitOut

CheckStep ==
    /\ pc = "buffered"
    /\ pc' = "checked"
    /\ lastCheck' = CheckRecord(buffer)
    /\ buffer' = check(buffer).buf
    /\ UNCHANGED <<driver, stream, pos, result, calls, lastRead, readInCall,
                   timedOutInCall, frameAtCall, afterReject, abandoned, payload, input,
                   decoded>>
    /\ UNCHANGED outVars

SpecCheck == InitCheck /\ [][CheckStep]_vars

(***************************************************************************)
(* SpecDecode: JeeLinkFrame::parse applied to a payload on its own.        *)
(***************************************************************************)
RECURSIVE Dec(_)
Dec(n) == IF n < 10 THEN <<48 + n>> ELSE Dec(n \div 10) \o <<48 + (n % 10)>>

\* "a b c d e"
Payload5(a, b, c, d, e) ==
    Dec(a) \o <<32>> \o Dec(b) \o <<32>> \o Dec(c) \o <<32>> \o Dec(d) \o <<32>> \o Dec(e)

IdSamples == {0, 50, 255}
FlagSamples == {0, 1, 65, 127, 128, 193, 255}
TempSamples == {0, 3, 4, 193, 232, 255}

InitDecode ==
    /\ driver = "async"
    /\ stream = <<>>
    /\ pos = 0
    /\ buffer = <<>>
    /\ pc = "payload"
    /\ result = Pending
    /\ calls = 0
    /\ lastRead = "none"
    /\ readInCall = FALSE
    /\ timedOutInCall = FALSE
    /\ frameAtCall = [has |-> FALSE, data |-> <<>>]
    /\ afterReject = FALSE
    /\ abandoned = <<>>
    /\ lastCheck = NoCheck
    /\ \E a \in IdSamples, b \in FlagSamples, c \in TempSamples,
          d \in TempSamples, e \in FlagSamples :
            /\ input = <<a, b, c, d, e>>
            /\ payload = Payload5(a, b, c, d, e)
    /\ decoded = ParseErr("")
    /\ InitOut

DecodeStep ==
    /\ pc = "payload"
    /\ pc' = "decoded"
    /\ \E checks \in BOOLEAN : decoded' = parse(payload, checks)
    /\ UNCHANGED <<driver, stream, pos, buffer, result, calls, lastRead, readInCall,
                   timedOutInCall, frameAtCall, afterReject, abandoned, lastCheck,
                   payload, input>>
    /\ UNCHANGED outVars

SpecDecode == InitDecode /\ [][DecodeStep]_vars

(***************************************************************************)
(* SpecPayload: JeeLinkFrame::parse applied to a payload that need not be  *)
(* well formed: up to MaxFields fields with a separator between each two,  *)
(* of which up to MaxOdd are out of the ordinary.                          *)
(***************************************************************************)
GoodField == <<49>>                 \* "1"
OddFields ==
    {<<>>,                          \* an empty field
     <<97>>,                        \* "a"
     <<255>>,                       \* a byte of no UTF-8 text
     <<194, 178, 1>>,               \* U+00B2 (superscript two: numeric, no digit)
                                    \* and the control character U+0001
     <<54, 53, 53, 51, 53>>}        \* "65535": a u16, no u8

GoodSep == <<32>>                   \* " "
OddSeps ==
    {<<9>>,                         \* tab
     <<194, 160>>}                  \* U+00A0, no-break space

\* a field or separator with what it counts towards MaxOdd
FieldsUpTo(k) == {<<GoodField, 0>>} \cup IF k > 0 THEN {<<f, 1>> : f \in OddFields} ELSE {}
SepsUpTo(k) == {<<GoodSep, 0>>} \cup IF k > 0 THEN {<<x, 1>> : x \in OddSeps} ELSE {}

\* the payloads of n fields of which at most k items are out of the ordinary
RECURSIVE PayloadsOf(_, _)
PayloadsOf(n, k) ==
    IF n = 1 THEN {f[1] : f \in FieldsUpTo(k)}
    ELSE UNION {{p \o xf[1][1] \o xf[2][1] : p \in PayloadsOf(n - 1, k - xf[1][2] - xf[2][2])} :
                    xf \in {y \in SepsUpTo(k) \X FieldsUpTo(k) : y[1][2] + y[2][2] <= k}}

InitPayload ==
    /\ driver = "async"
    /\ stream = <<>>
    /\ pos = 0
    /\ buffer = <<>>
    /\ pc = "payload"
    /\ result = Pending
    /\ calls = 0
    /\ lastRead = "none"
    /\ readInCall = FALSE
    /\ timedOutInCall = FALSE
    /\ frameAtCall = [has |-> FALSE, data |-> <<>>]
    /\ afterReject = FALSE
    /\ abandoned = <<>>
    /\ lastCheck = NoCheck
    /\ \E n \in 1..MaxFields : payload \in PayloadsOf(n, MaxOdd)
    /\ input = <<>>
    /\ decoded = ParseErr("")
    /\ InitOut

SpecPayload == InitPayload /\ [][DecodeStep]_vars

(***************************************************************************)
(* SpecPoint: a caller builds a LineProtocol value with new, add_tag,      *)
(* add_value and add_time, and renders it.                                 *)
(***************************************************************************)
Measurements == {"measurement1"}
TagKeys == {"tag1", "tag2"}
TagSamples == {"1", "some thing"}
ValueKeys == {"keyI64", "keyStr"}
\* values of each type that has a From impl
ValueSamples ==
    <<Float([neg |-> FALSE, int |-> 1, frac |-> "1"]),      \* 1.1
      Integer(-1),                                          \* -1i64
      UInteger(1),                                          \* 1u64
      String("va\"lue"),                                    \* "va\"lue"
      Boolean(TRUE),
      Boolean(FALSE)>>
TimeSamples == {ClockStart, [secs |-> 0, nanos |-> 7]}

InitPoint ==
    /\ driver = "async"
    /\ stream = <<>>
    /\ pos = 0
    /\ buffer = <<>>
    /\ pc = "building"
    /\ result = Pending
    /\ calls = 0
    /\ lastRead = "none"
    /\ readInCall = FALSE
    /\ timedOutInCall = FALSE
    /\ frameAtCall = [has |-> FALSE, data |-> <<>>]
    /\ afterReject = FALSE
    /\ abandoned = <<>>
    /\ lastCheck = NoCheck
    /\ payload = <<>>
    /\ input = <<>>
    /\ decoded = ParseErr("")
    /\ point \in {new(m) : m \in Measurements}
    /\ line = ""
    /\ output = "Stringify"
    /\ clock = ClockStart
    /\ added = <<>>

AddTag ==
    /\ pc = "building"
    /\ Len(added) < MaxItems
    /\ \E name \in TagKeys, tag \in TagSamples :
           /\ point' = add_tag(point, name, tag)
           /\ added' = Append(added, [op |-> "add_tag", name |-> name, value |-> Tag(tag)])
    /\ UNCHANGED <<inVars, pc, payload, input, decoded, line, output, clock>>

AddValue ==
    /\ pc = "building"
    /\ Len(added) < MaxItems
    /\ \E name \in ValueKeys, i \in 1..Len(ValueSamples) :
           /\ point' = add_value(point, name, ValueSamples[i])
           /\ added' = Append(added, [op |-> "add_value", name |-> name,
                                      value |-> ValueSamples[i]])
    /\ UNCHANGED <<inVars, pc, payload, input, decoded, line, output, clock>>

AddTime ==
    /\ pc = "building"
    /\ \E time \in {NoTime} \cup {SomeTime(t) : t \in TimeSamples} :
           point' = add_time(point, time)
    /\ UNCHANGED <<inVars, pc, payload, input, decoded, line, output, clock, added>>

\* format!("{}", point)
Render ==
    /\ pc \in {"building", "converted"}
    /\ pc' = "rendered"
    /\ line' = fmt(point)
    /\ UNCHANGED <<inVars, payload, input, decoded, point, output, clock, added>>

NextPoint == AddTag \/ AddValue \/ AddTime \/ Render

SpecPoint == InitPoint /\ [][NextPoint]_vars

(***************************************************************************)
(* SpecAdapter: a payload is decoded, the record is converted with         *)
(* to_lineprotocol and the point is rendered, while the wall clock ticks.  *)
(***************************************************************************)
AdapterIds == {50, 255}
AdapterFlags == {1, 65, 193}
AdapterTemps ==
    {<<4, 191>>,     \*  21.5
     <<4, 193>>,     \*  21.7
     <<3, 232>>,     \*   0
     <<3, 227>>,     \*  -0.5
     <<0, 0>>}       \* -100

InitAdapter ==
    /\ driver = "async"
    /\ stream = <<>>
    /\ pos = 0
    /\ buffer = <<>>
    /\ pc = "payload"
    /\ result = Pending
    /\ calls = 0
    /\ lastRead = "none"
    /\ readInCall = FALSE
    /\ timedOutInCall = FALSE
    /\ frameAtCall = [has |-> FALSE, data |-> <<>>]
    /\ afterReject = FALSE
    /\ abandoned = <<>>
    /\ lastCheck = NoCheck
    /\ \E a \in AdapterIds, b \in AdapterFlags, t \in AdapterTemps, e \in AdapterFlags :
            /\ input = <<a, b, t[1], t[2], e>>
            /\ payload = Payload5(a, b, t[1], t[2], e)
    /\ decoded = ParseErr("")
    /\ InitOut

\* time passes
Tick ==
    /\ clock.secs < ClockStart.secs + MaxTicks
    /\ clock' = [clock EXCEPT !.secs = @ + 1]
    /\ UNCHANGED <<inVars, pc, payload, input, decoded, point, line, output, added>>

\* frame.to_lineprotocol()
Convert ==
    /\ pc = "decoded"
    /\ decoded.ok
    /\ pc' = "converted"
    /\ point' = to_lineprotocol(decoded.frame, clock)
    /\ UNCHANGED <<inVars, payload, input, decoded, line, output, clock, added>>

NextAdapter == DecodeStep \/ Tick \/ Convert \/ Render

SpecAdapter == InitAdapter /\ [][NextAdapter]_vars

(***************************************************************************)
(* SpecMain: main of bin/sensorflow.rs on the async driver.  The source    *)
(* delivers its stream in reads of any size, may fail while it has bytes   *)
(* left, and is closed once it has delivered them: every read is then one  *)
(* of zero bytes.  calls counts the calls up to MaxCalls.  The loop never  *)
(* stalls: main calls and matches, read_frame checks, and a read on the    *)
(* closed source returns.                                                  *)
(***************************************************************************)
FrameC == START_SEQ \o <<53, 48, 32, 49, 32, 52, 32, 49, 57, 49, 32, 54, 53>> \o END_SEQ
                                                        \* "OK 9 50 1 4 191 65\r\n"

MainSegs == {Noise, FrameC, FrameBad}

MainStreams == {<<>>} \cup MainSegs \cup {a \o b : a \in MainSegs, b \in MainSegs}

InitMain ==
    /\ driver = "async"             \* FramedListener<SerialStream, JeeLinkFrame>
    /\ stream \in MainStreams
    /\ pos = 0
    /\ buffer = <<>>
    /\ pc = "main"
    /\ result = Pending
    /\ calls = 0
    /\ lastRead = "none"
    /\ readInCall = FALSE
    /\ timedOutInCall = FALSE
    /\ frameAtCall = [has |-> FALSE, data |-> <<>>]
    /\ afterReject = FALSE
    /\ abandoned = <<>>
    /\ lastCheck = NoCheck
    /\ payload = <<>>
    /\ input = <<>>
    /\ decoded = ParseErr("")
    /\ point = new("")
    /\ line = ""
    /\ output \in {"Stringify", "Influxdb"}
    /\ clock = ClockStart
    /\ added = <<>>

\* `let res = reader.read_frame().await`: main enters read_frame
MainCall ==
    /\ pc = "main"
    /\ pc' = "check"
    /\ calls' = IF calls < MaxCalls THEN calls + 1 ELSE calls
    /\ result' = Pending
    /\ lastRead' = "none"
    /\ readInCall' = FALSE
    /\ timedOutInCall' = FALSE
    /\ frameAtCall' = [has |-> FirstFrame(buffer).has, data |-> FirstFrame(buffer).data]
    /\ afterReject' = (result.kind = "Err" /\ result.err \in DecodeErrors)
    /\ UNCHANGED <<driver, stream, pos, buffer, abandoned, lastCheck, payload, input,
                   decoded>>
    /\ UNCHANGED outVars

\* read_frame has returned: `match res { .. }`
MainMatch ==
    /\ pc = "idle"
    /\ pc' = main_match(result).pc
    /\ line' = IF main_match(result).print
               THEN line \o to_output(output, result.frame, clock) \o "\n"
               ELSE line
    /\ UNCHANGED <<inVars, payload, input, decoded, point, output, clock, added>>

\* a read fails while the source has bytes left
ReadFailOpen == pos < Len(stream) /\ ReadFail

NextMain ==
    MainCall \/ ParseStep \/ ReadData \/ ReadClosed \/ ReadFailOpen \/ MainMatch \/ Tick

SpecMain ==
    /\ InitMain
    /\ [][NextMain]_vars
    /\ []<>(pc # "main") /\ []<>(pc # "check") /\ []<>(pc # "idle")
    /\ []<>(pc # "read" \/ pos < Len(stream))

(***************************************************************************)
(* Claims about JeeLinkFrame::check (SpecCheck)                            *)
(***************************************************************************)
IsSuffix(t, b) == Len(t) <= Len(b) /\ t = advance(b, Len(b) - Len(t))

\* C1: for a buffer G ++ "OK 9 " ++ P ++ "\r\n" ++ R whose first start marker
\* is at offset |G| and whose first end marker after it ends P, check returns
\* exactly P and leaves exactly R in the buffer.
C1_CheckExtractsFirstFrame ==
    (lastCheck.done /\ HasFrame(lastCheck.in)) =>
        /\ lastCheck.res = "Ok"
        /\ lastCheck.data = FirstFrame(lastCheck.in).data
        /\ lastCheck.out = FirstFrame(lastCheck.in).rest
        /\ buffer = FirstFrame(lastCheck.in).rest

\* garbage, a frame with a payload, and a second start marker behind it
C1_Witness ==
    /\ lastCheck.done
    /\ lastCheck.res = "Ok"
    /\ Min(StartOffsets(lastCheck.in)) > 0
    /\ lastCheck.data # <<>>
    /\ starts_with(buffer, START_SEQ)

\* C2: a buffer that begins with the start marker and holds no end marker
\* gives Incomplete and is left unchanged; whenever check gives Incomplete,
\* what is left is a suffix of the buffer and nothing from the first start
\* marker on has been removed.
C2_IncompleteKeepsFrameStart ==
    lastCheck.done =>
        /\ (starts_with(lastCheck.in, START_SEQ) /\ EndOffsetsFrom(lastCheck.in, 0) = {})
              => /\ lastCheck.res = "Incomplete"
                 /\ lastCheck.out = lastCheck.in
                 /\ buffer = lastCheck.in
        /\ lastCheck.res = "Incomplete"
              => /\ IsSuffix(lastCheck.out, lastCheck.in)
                 /\ buffer = lastCheck.out
                 /\ lastCheck.data = <<>>
                 /\ StartOffsets(lastCheck.in) # {}
                       => lastCheck.out = advance(lastCheck.in, Min(StartOffsets(lastCheck.in)))

\* a start marker followed by part of a payload and no end marker
C2_Witness ==
    /\ lastCheck.done
    /\ starts_with(lastCheck.in, START_SEQ)
    /\ Len(lastCheck.in) > Len(START_SEQ)
    /\ EndOffsetsFrom(lastCheck.in, 0) = {}
    /\ lastCheck.res = "Incomplete"
    /\ buffer = lastCheck.in

\* C20 as stated: whenever check gives Incomplete, the bytes left begin
\* with the start marker or are fewer than 5.
C20_IncompleteLeavesMarkerOrFewerThanFive ==
    (lastCheck.done /\ lastCheck.res = "Incomplete") =>
        starts_with(buffer, START_SEQ) \/ Len(buffer) < Len(START_SEQ)

\* C20 as amended: whenever check gives Incomplete, the bytes left begin
\* with the start marker or are at most 5: the scan gives Incomplete as soon
\* as no more than 5 bytes remain, whatever they are, and else discards
\* leading bytes until the marker is at the head of the buffer.
C20_IncompleteLeavesMarkerOrAtMostFive ==
    (lastCheck.done /\ lastCheck.res = "Incomplete") =>
        /\ starts_with(buffer, START_SEQ) \/ Len(buffer) <= Len(START_SEQ)
        /\ Len(lastCheck.in) <= Len(START_SEQ) => buffer = lastCheck.in
        /\ Len(lastCheck.in) > Len(START_SEQ) =>
              \/ Len(buffer) = Len(START_SEQ)
              \/ Len(buffer) > Len(START_SEQ) /\ starts_with(buffer, START_SEQ)
                    /\ EndOffsetsFrom(buffer, 0) = {}

\* bytes were discarded and the 5 that are left are no start marker
C20_Witness ==
    /\ lastCheck.done
    /\ lastCheck.res = "Incomplete"
    /\ Len(lastCheck.in) > Len(START_SEQ)
    /\ Len(buffer) = Len(START_SEQ)
    /\ buffer # START_SEQ

(***************************************************************************)
(* Claims about JeeLinkFrame::parse (SpecDecode)                           *)
(***************************************************************************)
\* the record the fields a, b, c, d, e stand for; temperature in tenths
RecordOf(v) ==
    [id |-> v[1],
     sensor_type |-> v[2] % 128,
     new_battery |-> (v[2] \div 128) # 0,
     weak_battery |-> v[5] >= 128,
     temperature |-> 256 * v[3] + v[4] - 1000,
     humidity |-> v[5] % 128]

\* C10: the payload "a b c d e" of five decimal byte values decodes to
\* id = a, new_battery = (b div 128 # 0), sensor_type = b mod 128,
\* temperature = (256 c + d - 1000) / 10, weak_battery = (e >= 128),
\* humidity = e mod 128; "50 1 4 193 65" decodes to id 50, type 1, no battery
\* flag, 21.7 degrees, humidity 65.
C10_DecodeFiveBytes ==
    pc = "decoded" =>
        /\ decoded.ok
        /\ decoded.frame = RecordOf(input)
        /\ payload = <<53, 48, 32, 49, 32, 52, 32, 49, 57, 51, 32, 54, 53>>
              => decoded.frame =
                    [id |-> 50, sensor_type |-> 1, new_battery |-> FALSE,
                     weak_battery |-> FALSE, temperature |-> 217, humidity |-> 65]

\* a payload with both battery flags different and a field of three digits
C10_Witness ==
    /\ pc = "decoded"
    /\ decoded.ok
    /\ input = <<50, 193, 4, 193, 65>>
    /\ decoded.frame.new_battery /\ ~decoded.frame.weak_battery
    /\ decoded.frame.temperature = 217

(***************************************************************************)
(* Claims about JeeLinkFrame::parse on arbitrary payloads (SpecPayload)    *)
(***************************************************************************)
\* what a payload is made of, read off its bytes
IsText(b) == \A i \in 1..Len(utf8_chars(b)) : utf8_chars(b)[i] >= 0
AllowedChar(c) == is_numeric(c) \/ is_whitespace(c) \/ is_control(c)
HasForbiddenChar(b) == \E i \in 1..Len(utf8_chars(b)) : ~AllowedChar(utf8_chars(b)[i])
Separators(b) == Cardinality({i \in 1..Len(utf8_chars(b)) : is_whitespace(utf8_chars(b)[i])})
SpaceFields(b) == Cardinality({i \in 1..Len(b) : b[i] = 32}) + 1

\* C11: decoding a payload (a text) that holds a character which is neither
\* numeric nor whitespace nor a control character fails with InvalidChars and
\* gives no record, whatever else the payload holds.
C11_ForbiddenCharIsInvalidChars ==
    (pc = "decoded" /\ IsText(payload) /\ HasForbiddenChar(payload)) =>
        decoded = ParseErr("InvalidChars")

\* five fields, the forbidden character is not the first one
C11_Witness ==
    /\ pc = "decoded"
    /\ IsText(payload)
    /\ Separators(payload) = 4
    /\ AllowedChar(payload[1])
    /\ HasForbiddenChar(payload)
    /\ decoded.err = "InvalidChars"

\* C12: decoding a payload (a text) whose number of whitespace characters is
\* not 4 fails validation and gives no record: with WrongNumberOfFields when
\* all its characters are allowed, with InvalidChars otherwise; the payload
\* of the frame "OK 9 \r\n" is the empty one and fails so.
C12_SeparatorCountIsChecked ==
    /\ check(START_SEQ \o END_SEQ).data = <<>>
    /\ (pc = "decoded" /\ IsText(payload) /\ Separators(payload) # 4) =>
           /\ decoded = ParseErr(IF HasForbiddenChar(payload) THEN "InvalidChars"
                                 ELSE "WrongNumberOfFields")
           /\ payload = <<>> => decoded = ParseErr("WrongNumberOfFields")

\* six well-formed fields
C12_Witness ==
    /\ pc = "decoded"
    /\ IsText(payload)
    /\ ~HasForbiddenChar(payload)
    /\ Separators(payload) = 5
    /\ SpaceFields(payload) = 6
    /\ decoded.err = "WrongNumberOfFields"

\* C13: decode is total: every payload gives a record or an error value; a
\* field that fails integer parsing and a payload of fewer than 5
\* space-separated fields give an error, never an abort and never a record.
C13_DecodeIsTotal ==
    pc = "decoded" =>
        /\ decoded.err # "Panic"
        /\ decoded.ok \/ decoded.err \in {"Utf8Error", "InvalidChars",
                                           "WrongNumberOfFields", "ParseIntError"}
        /\ SpaceFields(payload) < 5 => ~decoded.ok
        /\ (\E k \in 1..Len(split(payload)) :
                k <= 5 /\ parse_uint(split(payload)[k], 16) < 0) => ~decoded.ok

(***************************************************************************)
(* Claims about the Series Encoder (SpecPoint)                             *)
(***************************************************************************)
\* what the wire format writes for the values, tags and timestamps that the
\* caller of SpecPoint hands in
WrittenValue(v) ==
    CASE v.type = "Float" -> "1.1"
      [] v.type = "Integer" -> "-1i"
      [] v.type = "UInteger" -> "1u"
      [] v.type = "String" -> "\"va\"lue\""
      [] v.type = "Boolean" -> IF v.v THEN "true" ELSE "false"
      [] v.type = "Tag" -> v.v

WrittenTime(t) == IF t.secs = 0 THEN "7" ELSE "1467969011000000001"

Front(q) == SubSeq(q, 1, Len(q) - 1)
Last(q) == q[Len(q)]

RECURSIVE WrittenTags(_)
WrittenTags(tags) ==
    IF tags = <<>> THEN ""
    ELSE WrittenTags(Front(tags)) \o "," \o Last(tags).name \o "="
            \o WrittenValue(Last(tags).value)

RECURSIVE WrittenFields(_)
WrittenFields(values) ==
    IF values = <<>> THEN ""
    ELSE (IF Len(values) = 1 THEN "" ELSE WrittenFields(Front(values)) \o ",")
            \o Last(values).name \o "=" \o WrittenValue(Last(values).value)

\* C14: a point renders as its measurement name, ",key=value" for each tag
\* in insertion order, one space (also when there is no field), the fields
\* "key=value" joined by commas in insertion order and, only if a timestamp
\* is set, a space and the timestamp in nanoseconds since the epoch; a point
\* without tags, fields and timestamp renders as its name and one space.
C14_PointRendering ==
    pc = "rendered" =>
        /\ line = point.measurement \o WrittenTags(point.tags) \o " "
                    \o WrittenFields(point.values)
                    \o (IF point.time.set THEN " " \o WrittenTime(point.time) ELSE "")
        /\ point = new("measurement1") => line = "measurement1 "

\* two tags, no field and a timestamp: the space of the field section is
\* followed by the space of the timestamp
C14_Witness ==
    /\ pc = "rendered"
    /\ Len(point.tags) = 2
    /\ point.values = <<>>
    /\ line = "measurement1,tag1=1,tag2=some thing  1467969011000000001"

\* C15: a float field is written as its decimal text, a signed integer as
\* decimal text and 'i', an unsigned integer as decimal text and 'u', a
\* string between double quotes with its content as it is, a boolean as true
\* or false; a tag value is written as its raw text.
C15_ValueRendering ==
    (pc = "rendered" /\ Len(added) = 1 /\ ~point.time.set) =>
        line = IF added[1].op = "add_tag"
               THEN "measurement1," \o added[1].name \o "=" \o added[1].value.v \o " "
               ELSE "measurement1 " \o added[1].name \o "="
                      \o (CASE added[1].value.type = "Float" -> "1.1"
                            [] added[1].value.type = "Integer" -> "-1i"
                            [] added[1].value.type = "UInteger" -> "1u"
                            [] added[1].value.type = "String" -> "\"va\"lue\""
                            [] added[1].value.type = "Boolean" ->
                                  IF added[1].value.v THEN "true" ELSE "false")

\* an unsigned integer field on its own
C15_Witness ==
    /\ pc = "rendered"
    /\ Len(added) = 1
    /\ added[1].value.type = "UInteger"
    /\ line = "measurement1 keyI64=1u"

\* the calls of one kind among those made, as the items they add
RECURSIVE ItemsAdded(_, _)
ItemsAdded(calls_made, op) ==
    IF calls_made = <<>> THEN <<>>
    ELSE ItemsAdded(Front(calls_made), op)
            \o (IF Last(calls_made).op = op
                THEN <<[name |-> Last(calls_made).name, value |-> Last(calls_made).value]>>
                ELSE <<>>)

\* C18: after any sequence of add_tag and add_value calls the tags and the
\* fields hold one entry per call, in call order, also for a key that is
\* present already; a call leaves the name, the other sequence and the
\* timestamp as they are.
C18_AddAppends ==
    /\ [](/\ point.tags = ItemsAdded(added, "add_tag")
          /\ point.values = ItemsAdded(added, "add_value")
          /\ Len(point.tags) + Len(point.values) = Len(added))
    /\ [][added' # added =>
            /\ point'.measurement = point.measurement
            /\ point'.time = point.time
            /\ Last(added').op = "add_tag" => point'.values = point.values
            /\ Last(added').op = "add_value" => point'.tags = point.tags]_vars

\* the same tag key added twice with two values, then a field
C18_Witness ==
    /\ Len(point.tags) = 2
    /\ point.tags[1].name = point.tags[2].name
    /\ point.tags[1].value.v # point.tags[2].value.v
    /\ Len(point.values) = 1
    /\ Last(added).op = "add_value"

(***************************************************************************)
(* Claims about the Record-to-Point Adapter (SpecAdapter)                  *)
(***************************************************************************)
\* the text of a temperature of the records of SpecAdapter, in tenths
WrittenTemperature(t) ==
    CASE t = 215 -> "21.5"
      [] t = 217 -> "21.700000762939453"
      [] t = 0 -> "0"
      [] t = -5 -> "-0.5"
      [] t = -1000 -> "-100"

\* "tempHum,sensorId=<id>,sensorType=<sensor_type> temperature=<t>,
\* humidity=<h>u,weak_battery=<bool>,new_battery=<bool>"
WrittenRecord(r) ==
    "tempHum,sensorId=" \o ToString(r.id) \o ",sensorType=" \o ToString(r.sensor_type)
        \o " temperature=" \o WrittenTemperature(r.temperature)
        \o ",humidity=" \o ToString(r.humidity) \o "u"
        \o ",weak_battery=" \o (IF r.weak_battery THEN "true" ELSE "false")
        \o ",new_battery=" \o (IF r.new_battery THEN "true" ELSE "false")

ExampleRecord ==
    [id |-> 50, sensor_type |-> 1, new_battery |-> FALSE, weak_battery |-> FALSE,
     temperature |-> 215, humidity |-> 65]

ExampleText ==
    "tempHum,sensorId=50,sensorType=1 temperature=21.5,humidity=65u,weak_battery=false,new_battery=false"

NoneResult == Ret("None", "", NoFrame)
ErrResult(e) == Ret("Err", e, NoFrame)

\* C3: in the async read_frame a read of zero bytes ends the call, with
\* Ok(None) if the buffer is empty then and with ConnectionLost if it is not.
C3_AsyncZeroRead ==
    (driver = "async" /\ lastRead = "zero") =>
        /\ pc = "idle"
        /\ result = IF buffer = <<>> THEN NoneResult ELSE ErrResult("ConnectionLost")

\* the source closes while noise that is no frame start is still buffered
C3_Witness ==
    /\ driver = "async"
    /\ lastRead = "zero"
    /\ buffer # <<>>
    /\ ~starts_with(buffer, START_SEQ)
    /\ result = ErrResult("ConnectionLost")

\* C4: in the blocking read_frame a read of zero bytes ends the call, with
\* the end-of-stream result if the buffer is empty and with ConnectionLost if
\* it is not.
C4_BlockingZeroReadEnds ==
    (driver = "blocking" /\ lastRead = "zero") =>
        /\ pc = "idle"
        /\ result = IF buffer = <<>> THEN NoneResult ELSE ErrResult("ConnectionLost")

\* the result of decoding the payload p, for one of the build profiles
IsDecodeResult(r, p) ==
    \E checks \in BOOLEAN :
        LET d == parse(p, checks)
        IN  r = IF d.ok THEN Ret("Some", "", d.frame)
                ELSE IF d.err = "Panic" THEN Ret("Panic", "", NoFrame)
                ELSE ErrResult(d.err)

\* C6: a call that starts with a complete frame in the buffer returns the
\* decode result of that frame and reads nothing from the source.
C6_BufferedFrameNeedsNoRead ==
    frameAtCall.has =>
        /\ pc # "read"
        /\ ~readInCall
        /\ pc \in {"idle", "aborted"} => IsDecodeResult(result, frameAtCall.data)

\* the second of two frames that came in one read is returned by the next call
C6_Witness ==
    /\ calls = 2
    /\ pc = "idle"
    /\ frameAtCall.has
    /\ ~readInCall
    /\ result.kind = "Some"
    /\ pos = Len(stream)

\* C7: Incomplete never reaches the caller: a call returns a record, an
\* error other than Incomplete, or Ok(None), and Ok(None) only after a read
\* of zero bytes with the buffer empty.
C7_IncompleteNeverSurfaces ==
    /\ result.err # "Incomplete"
    /\ (pc = "idle" /\ calls > 0) => result.kind \in {"Some", "None", "Err"}
    /\ result.kind = "None" => (pc = "idle" /\ lastRead = "zero" /\ buffer = <<>>)

\* Ok(None) after the whole stream has been delivered and consumed
C7_Witness ==
    /\ pc = "idle"
    /\ result = NoneResult
    /\ lastRead = "zero"
    /\ pos > 0
    /\ calls = 2

\* C8: a read error other than a timeout ends the call with that very
\* error, and the buffer is what it was before the read.
C8_ReadErrorPropagates ==
    [][(pc = "read" /\ lastRead' \in IoErrors) =>
          /\ pc' = "idle"
          /\ result' = ErrResult(lastRead')
          /\ buffer' = buffer]_vars

\* a failed read with part of a frame buffered
C8_Witness ==
    /\ pc = "idle"
    /\ lastRead \in IoErrors
    /\ result = ErrResult(lastRead)
    /\ buffer # <<>>

\* C9 as stated: in both drivers a read that times out leaves the buffer as
\* it is, returns nothing to the caller and goes back to checking the buffer.
C9_TimeoutRetriesInBothDrivers ==
    [][(pc = "read" /\ lastRead' = "TimedOut") =>
          /\ buffer' = buffer
          /\ pc' = "check"
          /\ result' = result]_vars

\* C9 as amended: a read that times out leaves the buffer as it is; the
\* blocking driver returns nothing and goes back to checking the buffer, the
\* async driver returns the timeout as the error of the call.
C9_TimeoutRetriesInBlockingDriver ==
    [][(pc = "read" /\ lastRead' = "TimedOut") =>
          /\ buffer' = buffer
          /\ driver = "blocking" => (pc' = "check" /\ result' = result)
          /\ driver = "async" => (pc' = "idle" /\ result' = ErrResult("TimedOut"))]_vars

\* the blocking driver back at the loop head after a timeout, bytes buffered
C9_Witness ==
    /\ driver = "blocking"
    /\ lastRead = "TimedOut"
    /\ pc = "check"
    /\ result = Pending
    /\ buffer # <<>>

\* the frame that follows the first frame of the stream
SecondFrame(b) == FirstFrame(FirstFrame(b).rest)

\* C19: when read_frame returns a validation or integer-parse error for a
\* frame, the buffer holds what followed the end marker of that frame and
\* nothing of the frame; the next call does not report the frame again: after
\* the first call has rejected the first frame of the stream, what the second
\* call decodes is the frame after it.
C19_RejectedFrameIsConsumed ==
    /\ [][(pc = "check" /\ result'.kind = "Err" /\ result'.err \in DecodeErrors) =>
            /\ HasFrame(buffer)
            /\ buffer' = FirstFrame(buffer).rest
            /\ pc' = "idle"]_vars
    /\ [](/\ (afterReject /\ calls = 2 /\ frameAtCall.has) =>
                frameAtCall.data = SecondFrame(stream).data
          /\ (afterReject /\ calls = 2 /\ pc = "idle"
                /\ (result.kind = "Some" \/ result.err \in DecodeErrors)) =>
                /\ SecondFrame(stream).has
                /\ IsDecodeResult(result, SecondFrame(stream).data))

\* a frame with an empty last field, noise, and a well-formed frame: the
\* first call has returned the error of the integer parsing, the second call
\* returns the record
C19_Witness ==
    /\ afterReject
    /\ calls = 2
    /\ pc = "idle"
    /\ FirstFrame(stream).data = <<49, 32, 50, 32, 51, 32, 52, 32>>
    /\ SecondFrame(stream).data # FirstFrame(stream).data
    /\ Len(stream) > Len(FrameOdd) + Len(FrameA)
    /\ result = Ret("Some", "", RecordOf(<<1, 2, 3, 4, 5>>))

(***************************************************************************)
(* Claims about the blocking read_frame on an idle source (SpecBlocking)   *)
(***************************************************************************)
\* C5: when the reads of the blocking driver time out finitely often and the
\* source then delivers a well-formed frame, in one read or in several, the
\* call returns the record of that frame, and no call ever returns a timeout
\* as its error.
C5_TimeoutsThenFrame ==
    /\ [](result.err # "TimedOut")
    /\ <>(pc = "idle" /\ calls = 1 /\ result = Ret("Some", "", RecordOf(<<1, 2, 3, 4, 5>>)))

\* the first call has returned the record after a read of it timed out
C5_Witness ==
    /\ pc = "idle"
    /\ calls = 1
    /\ timedOutInCall
    /\ result = Ret("Some", "", RecordOf(<<1, 2, 3, 4, 5>>))

(***************************************************************************)
(* Claims about the buffer of one listener (Spec)                          *)
(***************************************************************************)
\* the bytes the source has handed out so far
Received == SubSeq(stream, 1, pos)

\* C21: between the operations of one listener, the bytes removed from the
\* head of the buffer so far followed by the buffer are the bytes received so
\* far (the buffer is what is left of the received bytes behind the removed
\* ones); a read appends the bytes it has read at the tail and changes
\* nothing else, the check removes a prefix and receives nothing, and
\* between two calls buffer and source stay as they are.
C21_BufferIsReceivedMinusRemoved ==
    /\ [](IsSuffix(buffer, Received))
    /\ [][/\ pc = "read" => buffer' = buffer \o SubSeq(stream, pos + 1, pos')
          /\ pc = "check" => (IsSuffix(buffer', buffer) /\ pos' = pos)
          /\ pc = "idle" => (buffer' = buffer /\ pos' = pos)]_vars

\* a frame has been removed, the start of the next frame is buffered and
\* the rest of it has not been received
C21_Witness ==
    /\ pc = "idle"
    /\ result.kind = "Some"
    /\ readInCall
    /\ starts_with(buffer, START_SEQ)
    /\ Len(buffer) < Len(FrameA)
    /\ pos < Len(stream)

(***************************************************************************)
(* Claims about broken frames (SpecCheck)                                  *)
(***************************************************************************)
\* b holds a start marker, a second start marker behind it and the first
\* end marker only behind that one
SecondStartBeforeEnd(b) ==
    /\ HasFrame(b)
    /\ \E k \in StartOffsets(b) :
          /\ k > Min(StartOffsets(b))
          /\ k + Len(START_SEQ)
                <= Min(EndOffsetsFrom(b, Min(StartOffsets(b)) + Len(START_SEQ)))

\* C22: when a second start marker follows the first one in front of any end
\* marker, check does not move on to the later marker: its payload runs from
\* behind the first start marker to the first end marker and holds the later
\* marker, the bytes up to that end marker leave the buffer, and the payload
\* fails to decode (with InvalidChars), so that the frame behind the later
\* marker is not delivered as a record.
C22_NoResyncMidPayload ==
    (lastCheck.done /\ SecondStartBeforeEnd(lastCheck.in)) =>
        LET k == Min(StartOffsets(lastCheck.in))
            j == Min(EndOffsetsFrom(lastCheck.in, k + Len(START_SEQ)))
        IN  /\ lastCheck.res = "Ok"
            /\ lastCheck.data = SubSeq(lastCheck.in, k + Len(START_SEQ) + 1, j)
            /\ StartOffsets(lastCheck.data) # {}
            /\ buffer = SubSeq(lastCheck.in, j + Len(END_SEQ) + 1, Len(lastCheck.in))
            /\ \A checks \in BOOLEAN :
                  /\ parse(lastCheck.data, checks) = ParseErr("InvalidChars")
                  /\ listener_parse(lastCheck.in, checks).ret
                        = Ret("Err", "InvalidChars", NoFrame)
                  /\ listener_parse(lastCheck.in, checks).buf = buffer

\* a frame cut off in its second field, directly followed by a well-formed
\* frame
C22_Witness ==
    /\ lastCheck.done
    /\ lastCheck.in = START_SEQ \o <<49, 32, 50>> \o FrameA
    /\ lastCheck.data = <<49, 32, 50>> \o START_SEQ \o <<49, 32, 50, 32, 51, 32, 52, 32, 53>>
    /\ buffer = <<>>

(***************************************************************************)
(* Claims about the fields of a payload (SpecPayload)                      *)
(***************************************************************************)
\* the number that the field k (from 0) of a payload is the decimal text of,
\* -1 if it is none
FieldValue(b, k) == IF k < Len(split(b)) THEN digits_value(split(b)[k + 1]) ELSE -1

\* C23: for every payload that decode accepts, the fields 2 and 3 are byte
\* values and the temperature is (256 * field 2 + field 3 - 1000) / 10.
C23_TemperatureFromTwoBytes ==
    (pc = "decoded" /\ decoded.ok) =>
        /\ FieldValue(payload, 2) \in 0..255
        /\ FieldValue(payload, 3) \in 0..255
        /\ decoded.frame.temperature
              = 256 * FieldValue(payload, 2) + FieldValue(payload, 3) - 1000

\* C24: every payload that passes validation splits on the space character
\* into exactly 5 fields, whatever whitespace characters separate them.
C24_ValidatedPayloadHasFiveFields ==
    (pc = "decoded" /\ from_utf8_ok(payload) /\ validate(utf8_chars(payload)) = "Ok") =>
        /\ Len(split(payload)) = 5
        /\ SpaceFields(payload) = 5

\* b is five fields of decimal digits with a space between each two
FiveDecimalFields(b) ==
    /\ Len(split(b)) = 5
    /\ \A k \in 1..5 :
          /\ split(b)[k] # <<>>
          /\ \A i \in 1..Len(split(b)[k]) : split(b)[k][i] \in 48..57

\* C25: a payload of five space-separated decimal fields of which field 0, 1
\* or 4 is above 255 is rejected with an error and gives no record.
C25_ByteFieldsAbove255AreRejected ==
    (/\ pc = "decoded"
     /\ FiveDecimalFields(payload)
     /\ \E k \in {0, 1, 4} : FieldValue(payload, k) > 255) =>
        /\ ~decoded.ok
        /\ decoded.err = "ParseIntError"

(***************************************************************************)
(* Claims about the order of the records (SpecOrder)                       *)
(***************************************************************************)
\* the payloads of the complete frames of b, in order
RECURSIVE Frames(_)
Frames(b) ==
    LET f == FirstFrame(b)
    IN  IF ~f.has THEN <<>> ELSE <<f.data>> \o Frames(f.rest)

\* the record of a frame of SpecOrder
RecordOfPayload(p) ==
    IF p = <<49, 32, 50, 32, 51, 32, 52, 32, 53>> THEN RecordOf(<<1, 2, 3, 4, 5>>)
    ELSE RecordOf(<<9, 8, 7, 6, 5>>)

\* C26: for a stream of well-formed frames, each with or without noise in
\* front that holds no start marker, the successive calls return the records
\* of the frames in stream order, each once: the k-th call returns the record
\* of the k-th frame of the stream, whatever the reads deliver at a time, and
\* a call after the last frame returns no record.
C26_FramesInOrderExactlyOnce ==
    (pc = "idle" /\ calls > 0) =>
        IF calls <= Len(Frames(stream))
        THEN result = Ret("Some", "", RecordOfPayload(Frames(stream)[calls]))
        ELSE result.kind # "Some"

\* two frames with noise in front of each have come in one read; the second
\* call has returned the record of the second one without a read
C26_Witness ==
    /\ calls = 2
    /\ pc = "idle"
    /\ Frames(stream) = <<<<49, 32, 50, 32, 51, 32, 52, 32, 53>>,
                          <<57, 32, 56, 32, 55, 32, 54, 32, 53>>>>
    /\ Len(stream) = Len(FrameA) + Len(FrameB) + 6
    /\ frameAtCall.has
    /\ ~readInCall
    /\ result = Ret("Some", "", RecordOf(<<9, 8, 7, 6, 5>>))

(***************************************************************************)
(* Claims about the reads a stream comes in (SpecChunks)                   *)
(***************************************************************************)
\* what the k-th call of the async driver returns when the source hands out
\* the stream b in one read and is closed then
RECURSIVE NthResult(_, _, _)
NthResult(b, k, checks) ==
    LET r == listener_parse(b, checks)
    IN  IF r.ret.kind = "None"
        THEN (IF r.buf = <<>> THEN NoneResult ELSE ErrResult("ConnectionLost"))
        ELSE IF k = 1 THEN r.ret
        ELSE NthResult(r.buf, k - 1, checks)

\* C27: what the successive calls return depends on the byte stream only,
\* not on the reads it comes in: whatever the reads, the k-th call returns
\* what it returns when the whole stream comes in one read.
C27_ChunkingIndependence ==
    (pc = "idle" /\ result # Pending /\ abandoned = <<>>) =>
        \E checks \in BOOLEAN : result = NthResult(stream, calls, checks)

\* the stream has come in two reads or more: the first call has returned the
\* error of the malformed frame, the second call has read on and has
\* returned the record of the frame behind it
C27_Witness ==
    /\ pc = "idle"
    /\ abandoned = <<>>
    /\ calls = 2
    /\ stream = FrameBad \o FrameA
    /\ readInCall
    /\ ~frameAtCall.has
    /\ result = Ret("Some", "", RecordOf(<<1, 2, 3, 4, 5>>))

\* C28: read_frame keeps no progress outside the buffer of the listener:
\* dropping a pending call leaves the buffer and the source as they are, and
\* the calls that return afterwards return what they would have returned
\* had no call been dropped.
C28_AbandonedCallKeepsBuffer ==
    /\ [][abandoned' # abandoned => (buffer' = buffer /\ pos' = pos)]_vars
    /\ []((pc = "idle" /\ result # Pending /\ abandoned # <<>>) =>
            \E checks \in BOOLEAN :
                result = NthResult(stream, calls - Len(abandoned), checks))

\* the first call was dropped with the start of a frame buffered, the
\* second call has returned the record of this frame
C28_Witness ==
    /\ pc = "idle"
    /\ calls = 2
    /\ Len(abandoned) = 1
    /\ abandoned[1] > Len(START_SEQ)
    /\ starts_with(stream, START_SEQ)
    /\ result = Ret("Some", "", RecordOf(<<1, 2, 3, 4, 5>>))

(***************************************************************************)
(* Claims about the loop of main (SpecMain)                                *)
(***************************************************************************)
\* the source is closed, nothing is buffered and no record or error waits
\* to be matched
ClosedAndDrained ==
    /\ pos = Len(stream)
    /\ buffer = <<>>
    /\ pc # "exited"
    /\ pc = "idle" => result = NoneResult

\* C29: main ends when read_frame returns an error and only then, on the
\* first error of whatever kind; on Ok(None) it prints nothing and calls
\* read_frame again; on a source that stays closed, with nothing buffered,
\* it goes on like this forever: it never ends, never prints, and calls
\* read_frame again and again.
C29_MainEndsOnFirstError ==
    /\ [](pc = "exited" => result.kind = "Err")
    /\ [][/\ (pc = "idle" /\ pc' # "idle") =>
               /\ pc' = (IF result.kind = "Err" THEN "exited" ELSE "main")
               /\ result.kind # "Some" => line' = line
          /\ pc = "exited" => pc' = "exited"
          /\ pc' = "exited" => (pc = "exited" \/ (pc = "idle" /\ result.kind = "Err"))
          /\ ClosedAndDrained => (ClosedAndDrained' /\ line' = line)]_vars
    /\ [](pc = "idle" /\ result.kind = "Err" => <>(pc = "exited"))
    /\ [](ClosedAndDrained => <>(pc = "check"))

\* main has printed a record, has gone on, and has ended on the validation
\* error of the malformed frame behind it
C29_Witness ==
    /\ pc = "exited"
    /\ output = "Stringify"
    /\ line = "Sensor 50: Type  1, Temperatur 21.5, Humidity 65, "
                \o "weak battery: false, new battery: false\n"
    /\ stream = FrameC \o FrameBad
    /\ result = ErrResult("InvalidChars")

====
